---- MODULE Spec2Model ----
(***************************************************************************)
(* Mirror registry of backend/api/handlers.py: the tiered nearest-mirror   *)
(* selector (_get_nearest_mirrors), the listings built on it               *)
(* (get_all_mirrors, get_mirrors_list, get_isos_list_by_countries) and the *)
(* registry replacement (update_mirrors_handler) run by concurrent         *)
(* requests against one store.                                             *)
(***************************************************************************)
EXTENDS Integers, Sequences, FiniteSets, TLC

(***************************************************************************)
(* Constants of the program and bounds of the model.                       *)
(***************************************************************************)
MAX_LENGTH_OF_MIRRORS_LIST == 5

\* Number of mirror descriptors the verification subsystem can hand over.
NumMirrors == 9

\* Number of replacement cycles that may be started in one behaviour.
MaxCycles == 2

\* Python's None for an address (dict.get of a missing key); falsy for `or`.
None == <<>>

\* api.mirrors_update.REQUIRED_MIRROR_PROTOCOLS: the ordered pair of protocols.
REQUIRED_MIRROR_PROTOCOLS == <<"https", "http">>

\* Iteration order of a descriptor's address mapping (mirror['address'].items()).
ProtocolOrder == <<"https", "http", "rsync">>

\* Keys update_mirrors_handler reads from a descriptor.
RequiredKeys ==
    {"name", "continent", "country", "ip", "location", "status",
     "update_frequency", "sponsor", "sponsor_url", "email", "address"}

(***************************************************************************)
(* Inputs: the descriptors get_verified_mirrors returns, the outcomes of   *)
(* get_geo_data_by_ip and the configuration of get_config.                 *)
(***************************************************************************)
Addr(types, n) == [t \in types |-> <<t, n>>]

Descriptor(n, continent, country, lat, lon, status, types) ==
    [name |-> n, continent |-> continent, country |-> country, ip |-> <<"ip", n>>,
     location |-> [lat |-> lat, lon |-> lon], status |-> status,
     update_frequency |-> IF n % 2 = 0 THEN "24h" ELSE "unparsable",
     sponsor |-> "sponsor", sponsor_url |-> "sponsor_url", email |-> "email",
     address |-> Addr(types, n)]

\* The catalog: 1 = A (Germany), 2 = B (France), 3 = C (Brazil), 4 expired,
\* 5 without a required protocol, 6..9 more mirrors of A's country (6 and 9
\* at the same place), any further one in North America.
Desc(i) ==
    CASE i = 1 -> Descriptor(1, "EU", "DE", 1, 0, "active", {"https", "http"})
      [] i = 2 -> Descriptor(2, "EU", "FR", 3, 0, "active", {"https"})
      [] i = 3 -> Descriptor(3, "SA", "BR", 9, 9, "active", {"http"})
      [] i = 4 -> Descriptor(4, "EU", "DE", 1, 1, "expired", {"https"})
      [] i = 5 -> Descriptor(5, "EU", "DE", 0, 2, "active", {"rsync"})
      [] i = 6 -> Descriptor(6, "EU", "DE", 2, 2, "active", {"https"})
      [] i = 7 -> Descriptor(7, "EU", "DE", 0, 3, "active", {"https"})
      [] i = 8 -> Descriptor(8, "EU", "DE", 3, 3, "active", {"http"})
      [] i = 9 -> Descriptor(9, "EU", "DE", 2, 2, "active", {"https"})
      [] OTHER -> Descriptor(i, "NA", "US", 5 + (i % 3), 7, "active", {"https"})

\* A descriptor without its 'email' key: building the Mirror raises KeyError.
BadDesc == [k \in RequiredKeys \ {"email"} |-> Desc(2)[k]]

RECURSIVE SubSeqOf(_, _, _)
\* The descriptors of the index set S, in catalog order, from index i on.
SubSeqOf(S, i, n) ==
    IF i > n THEN <<>>
    ELSE (IF i \in S THEN <<Desc(i)>> ELSE <<>>) \o SubSeqOf(S, i + 1, n)

\* Every list of distinct catalog descriptors, in catalog order.
AllDescLists == {SubSeqOf(S, 1, NumMirrors) : S \in SUBSET (1..NumMirrors)}

\* The lists the replacement cycles of Spec are fed.
CycleDescLists ==
    {<<Desc(1), Desc(2), Desc(3)>>, <<Desc(4), Desc(6)>>, <<Desc(2), BadDesc>>}

NoMatch == [found |-> FALSE]

Match(continent, country, lat, lon) ==
    [found |-> TRUE, continent |-> continent, country |-> country,
     latitude |-> lat, longitude |-> lon]

\* get_geo_data_by_ip: None, or (continent, country, latitude, longitude).
GeoOutcomes ==
    {NoMatch, Match("EU", "DE", 1, 0), Match("EU", "DE", 3, 1),
     Match("SA", "BR", 9, 8), Match("AS", "JP", 9, 0)}

\* The outcomes met by the requests that run beside replacement cycles.
CycleGeoOutcomes == {NoMatch, Match("EU", "DE", 1, 0)}

\* get_config(): versions, and repos as name -> path.
ConfigVersions == {"8"}
ConfigRepos == [BaseOS |-> "BaseOS/x86_64/os"]
RequestVersions == {"8", "99"}
RequestRepos == {"BaseOS", "nonexistent-repo"}

(***************************************************************************)
(* The store: the Mirror and Url tables, and the rows a query loads.       *)
(***************************************************************************)
EmptyTables == [mirrors |-> <<>>, urls |-> <<>>]

\* dateparser.parse: a datetime for a parsable text, None otherwise.
ParseDate(s) == IF s = "24h" THEN <<"datetime", s>> ELSE None

\* A descriptor update_mirrors_handler can build a Url list and a Mirror from.
WellFormed(d) ==
    /\ RequiredKeys \subseteq DOMAIN d
    /\ {"lat", "lon"} \subseteq DOMAIN d.location

RECURSIVE UrlsFrom(_, _)
\* urls_to_create: one Url per (type, url) item of mirror['address'].
UrlsFrom(address, i) ==
    IF i > Len(ProtocolOrder) THEN <<>>
    ELSE (IF ProtocolOrder[i] \in DOMAIN address
            THEN <<[type |-> ProtocolOrder[i], url |-> address[ProtocolOrder[i]]]>>
            ELSE <<>>) \o UrlsFrom(address, i + 1)

UrlsToCreate(d) == UrlsFrom(d.address, 1)

\* mirror_to_create: the Mirror built from a descriptor.
MirrorToCreate(d) ==
    [name |-> d.name, continent |-> d.continent, country |-> d.country,
     ip |-> d.ip, latitude |-> d.location.lat, longitude |-> d.location.lon,
     is_expired |-> (d.status = "expired"),
     update_frequency |-> ParseDate(d.update_frequency),
     sponsor_name |-> d.sponsor, sponsor_url |-> d.sponsor_url, email |-> d.email]

\* What the loop body adds to the session for one descriptor.
Pending(d) == [mirror |-> MirrorToCreate(d), urls |-> UrlsToCreate(d)]

RECURSIVE InsertAll(_, _, _)
\* session.flush(): INSERT the added Mirrors and their Urls; a Mirror's id is
\* its row number, its Urls carry it.
InsertAll(tables, pending, i) ==
    IF i > Len(pending) THEN tables
    ELSE LET id == Len(tables.mirrors) + 1
             us == [j \in 1..Len(pending[i].urls) |->
                      [mirror_id |-> id, type |-> pending[i].urls[j].type,
                       url |-> pending[i].urls[j].url]]
         IN  InsertAll([mirrors |-> Append(tables.mirrors, pending[i].mirror),
                        urls |-> tables.urls \o us], pending, i + 1)

\* The registry a completed replacement with the descriptor list S leaves.
TablesOf(S) == InsertAll(EmptyTables, [i \in 1..Len(S) |-> Pending(S[i])], 1)

\* Mirror.to_dict: the row's attributes and its urls as type -> url.
ToDict(tables, i) ==
    LET m  == tables.mirrors[i]
        ts == {tables.urls[j].type : j \in {k \in 1..Len(tables.urls) :
                                              tables.urls[k].mirror_id = i}}
    IN  [name |-> m.name, continent |-> m.continent, country |-> m.country,
         latitude |-> m.latitude, longitude |-> m.longitude,
         is_expired |-> m.is_expired, update_frequency |-> m.update_frequency,
         urls |-> [t \in ts |->
                     (CHOOSE u \in {tables.urls[j] : j \in 1..Len(tables.urls)} :
                         u.mirror_id = i /\ u.type = t).url]]

\* session.query(Mirror): every Mirror row, in the table's row order.
Rows(tables) == [i \in 1..Len(tables.mirrors) |-> ToDict(tables, i)]

(***************************************************************************)
(* The queries of _get_nearest_mirrors and get_all_mirrors, on loaded rows. *)
(* Where SQL leaves the order open and a LIMIT makes the order decide which *)
(* rows come back, every choice is kept; a query without LIMIT returns its  *)
(* rows in row order.                                                       *)
(***************************************************************************)
Min(a, b) == IF a <= b THEN a ELSE b

Take(s, k) == SubSeq(s, 1, Min(k, Len(s)))

RECURSIVE InRowOrder(_, _, _)
\* The rows with an index in T, in row order, from index i on.
InRowOrder(rows, T, i) ==
    IF i > Len(rows) THEN <<>>
    ELSE (IF i \in T THEN <<rows[i]>> ELSE <<>>) \o InRowOrder(rows, T, i + 1)

\* .limit(k) without order_by: any k of the candidate rows.
Limited(rows, I, k) ==
    {InRowOrder(rows, T, 1) :
        T \in {U \in SUBSET I : Cardinality(U) = Min(k, Cardinality(I))}}

\* Mirror.conditional_distance(lon, lat): a monotone surrogate of the
\* great-circle distance (here the squared planar distance).
ConditionalDistance(m, lon, lat) ==
    (m.longitude - lon) * (m.longitude - lon) + (m.latitude - lat) * (m.latitude - lat)

RECURSIVE Nearest(_, _, _, _, _)
\* .order_by(conditional_distance).limit(k): the k nearest candidates,
\* ascending; rows at the same distance come in any order.
Nearest(rows, I, lon, lat, k) ==
    IF k = 0 \/ I = {} THEN {<<>>}
    ELSE LET near == {i \in I : \A j \in I :
                        ConditionalDistance(rows[i], lon, lat)
                            <= ConditionalDistance(rows[j], lon, lat)}
         IN  UNION {{<<rows[i]>> \o t : t \in Nearest(rows, I \ {i}, lon, lat, k - 1)} :
                        i \in near}

\* Mirror.is_expired == false()
NotExpired(rows) == {i \in DOMAIN rows : ~rows[i].is_expired}

\* all_mirrors_query.all()
AllMirrorsQuery_NoFilter(rows) == rows

AllMirrorsQuery(rows) == InRowOrder(rows, NotExpired(rows), 1)

CountryCandidates(rows, match) ==
    {i \in DOMAIN rows : /\ rows[i].continent = match.continent
                         /\ rows[i].country = match.country
                         /\ ~rows[i].is_expired}

ContinentCandidates(rows, match) ==
    {i \in DOMAIN rows : rows[i].continent = match.continent /\ ~rows[i].is_expired}

\* mirrors_by_country_query.all()
MirrorsByCountryQuery(rows, match) ==
    Limited(rows, CountryCandidates(rows, match), MAX_LENGTH_OF_MIRRORS_LIST)

\* mirrors_by_continent_query.all()
MirrorsByContinentQuery(rows, match) ==
    Nearest(rows, ContinentCandidates(rows, match), match.longitude, match.latitude,
            MAX_LENGTH_OF_MIRRORS_LIST)

\* all_rest_mirrors_query.all()
AllRestMirrorsQuery(rows, match) ==
    Nearest(rows, NotExpired(rows), match.longitude, match.latitude,
            MAX_LENGTH_OF_MIRRORS_LIST)

SuitableMirrors_Uncut(by_country, by_continent, all_rest) ==
    by_country \o by_continent \o all_rest

SuitableMirrors_ContinentFirst(by_country, by_continent, all_rest) ==
    Take(by_continent \o by_country \o all_rest, MAX_LENGTH_OF_MIRRORS_LIST)

\* suitable_mirrors: the three lists concatenated, cut to the first five.
SuitableMirrors(by_country, by_continent, all_rest) ==
    Take(by_country \o by_continent \o all_rest, MAX_LENGTH_OF_MIRRORS_LIST)

\* The (continent, country) pairs of the catalog, ascending.
PlaceOrder == <<<<"EU", "DE">>, <<"EU", "FR">>, <<"NA", "US">>, <<"SA", "BR">>>>

RECURSIVE OrderedByPlace(_, _)
\* .order_by(Mirror.continent, Mirror.country).all(), no is_expired filter.
OrderedByPlace(rows, p) ==
    IF p > Len(PlaceOrder) THEN <<>>
    ELSE InRowOrder(rows, {i \in DOMAIN rows :
                             <<rows[i].continent, rows[i].country>> = PlaceOrder[p]}, 1)
         \o OrderedByPlace(rows, p + 1)

\* get_all_mirrors: mirrors_list
GetAllMirrorsList(rows) == OrderedByPlace(rows, 1)

(***************************************************************************)
(* Download paths and ISO links.                                           *)
(***************************************************************************)
Get(urls, type) == IF type \in DOMAIN urls THEN urls[type] ELSE None

\* a or b
Or(a, b) == IF a = None THEN b ELSE a

\* mirror_url of get_mirrors_list
MirrorUrl(mirror) ==
    Or(Get(mirror.urls, REQUIRED_MIRROR_PROTOCOLS[1]),
       Get(mirror.urls, REQUIRED_MIRROR_PROTOCOLS[2]))

\* Texts os.path.join takes for absolute paths (a leading "/").
AbsoluteTexts == {"/", "/isos"}

\* os.path.join(base, *rest): the parts from the last absolute one on, the
\* base kept only when no later part is absolute.
PathJoin(base, rest) ==
    LET abs == {i \in DOMAIN rest : rest[i] \in AbsoluteTexts}
    IN  IF abs = {} THEN [base |-> base, rest |-> rest]
        ELSE LET k == CHOOSE i \in abs : \A j \in abs : j <= i
             IN  [base |-> None, rest |-> SubSeq(rest, k, Len(rest))]

\* full_mirror_path
FullMirrorPath(mirror, version, repo_path) ==
    PathJoin(MirrorUrl(mirror), <<version, repo_path>>)

\* The two orders in which a mirror's urls dict can list the required protocols.
DictOrders == {<<"https", "http">>, <<"http", "https">>}

\* mirror_url of _set_isos_link_for_mirror: the first address of the dict
\* whose protocol is required; None stands for next() raising StopIteration.
FirstRequiredUrl(urls, order) ==
    IF order[1] \in DOMAIN urls THEN urls[order[1]]
    ELSE IF order[2] \in DOMAIN urls THEN urls[order[2]]
    ELSE None

\* _set_isos_link_for_mirror
SetIsosLink(mirror, version, arch, order) ==
    [k \in DOMAIN mirror \cup {"isos_link"} |->
        IF k = "isos_link"
        THEN PathJoin(FirstRequiredUrl(mirror.urls, order), <<version, "isos", arch>>)
        ELSE mirror[k]]

SetIsosLinks(mirrors, version, arch, order) ==
    [i \in DOMAIN mirrors |-> SetIsosLink(mirrors[i], version, arch, order)]

\* mirrors_by_countries: country -> the mirrors of the listing in that country.
GroupByCountry(mirrors) ==
    [c \in {mirrors[i].country : i \in DOMAIN mirrors} |->
        InRowOrder(mirrors, {i \in DOMAIN mirrors : mirrors[i].country = c}, 1)]

(***************************************************************************)
(* State.                                                                   *)
(*   db        the committed Mirror and Url tables                          *)
(*   tx        per replacement run: its session's uncommitted work          *)
(*   lock      the run holding the store's write lock (0: none)             *)
(*   wpc, verified, idx, ret                                                *)
(*             per replacement run: position in update_mirrors_handler,     *)
(*             verified_mirrors, loop index, what the call returned         *)
(*   before    per run: the committed tables when its unit of work began    *)
(*   cycles    replacement runs started so far                              *)
(*   current   the descriptor list of the last completed replacement        *)
(*   rpc, call, part, result                                                *)
(*             the reading request: position, arguments, lists read so far, *)
(*             and what the call returned (nothing while it runs)           *)
(*   seen      the tables the reader's latest query was run against         *)
(***************************************************************************)
VARIABLES db, tx, lock, wpc, verified, idx, ret, before, cycles, current,
          rpc, call, part, result, seen

store == <<db, tx, lock, wpc, verified, idx, ret, before, cycles, current>>
reader == <<rpc, call, part, result, seen>>
vars == <<store, reader>>

Writers == {1, 2}

NoTx == [active |-> FALSE, mirrors |-> <<>>, urls |-> <<>>, pending |-> <<>>]

NoCall ==
    [op |-> "none", match |-> NoMatch, empty_for_unknown_ip |-> FALSE,
     version |-> "", repo_path |-> "", arch |-> "", order |-> <<>>]

NoPart == [country |-> <<>>, continent |-> <<>>, groups |-> <<>>]

NoResult ==
    [call |-> NoCall, status |-> "none", error |-> "", value |-> <<>>,
     nearest |-> <<>>, groups |-> <<>>]

Ok(c, value, nearest, groups) ==
    [call |-> c, status |-> "ok", error |-> "", value |-> value,
     nearest |-> nearest, groups |-> groups]

Raised(c, error, nearest) ==
    [call |-> c, status |-> "raised", error |-> error, value |-> <<>>,
     nearest |-> nearest, groups |-> <<>>]

\* What a query of a reading session is run against: the committed tables
\* (session_scope's transaction never shows another session's uncommitted work).
Visible == db

InitReader ==
    /\ rpc = "idle" /\ call = NoCall /\ part = NoPart /\ result = NoResult
    /\ seen = EmptyTables

InitWriters ==
    /\ tx = [w \in Writers |-> NoTx]
    /\ lock = 0
    /\ wpc = [w \in Writers |-> "idle"]
    /\ verified = [w \in Writers |-> <<>>]
    /\ idx = [w \in Writers |-> 0]
    /\ ret = [w \in Writers |-> "none"]
    /\ before = [w \in Writers |-> EmptyTables]
    /\ cycles = 0

\* A freshly created, empty registry.
Init ==
    /\ db = EmptyTables
    /\ current = <<>>
    /\ InitWriters
    /\ InitReader

\* Any registry a completed replacement can have left.
InitSel ==
    /\ \E S \in AllDescLists : db = TablesOf(S) /\ current = S
    /\ InitWriters
    /\ InitReader

(***************************************************************************)
(* The reading requests.                                                    *)
(***************************************************************************)
\* _get_nearest_mirrors(ip_address, empty_for_unknown_ip), called directly
CallNearest(m, e) ==
    /\ rpc = "idle"
    /\ call' = [NoCall EXCEPT !.op = "nearest", !.match = m,
                              !.empty_for_unknown_ip = e]
    /\ rpc' = "select"
    /\ part' = NoPart
    /\ result' = NoResult
    /\ UNCHANGED <<seen, store>>

\* get_all_mirrors()
CallGetAllMirrors ==
    /\ rpc = "idle"
    /\ call' = [NoCall EXCEPT !.op = "get_all"]
    /\ rpc' = "all"
    /\ part' = NoPart
    /\ result' = NoResult
    /\ UNCHANGED <<seen, store>>

\* get_mirrors_list(ip_address, version, repository), up to the selector call
CallGetMirrorsList(m, version, repository) ==
    /\ rpc = "idle"
    /\ part' = NoPart
    /\ LET c == [NoCall EXCEPT !.op = "mirrors_list", !.match = m, !.version = version,
                        !.repo_path = IF repository \in DOMAIN ConfigRepos
                                        THEN ConfigRepos[repository] ELSE ""]
       IN  IF version \notin ConfigVersions \/ repository \notin DOMAIN ConfigRepos
           THEN /\ result' = Raised(c, "BadRequestFormatExceptioin", <<>>)
                /\ UNCHANGED <<rpc, call>>
           ELSE /\ call' = c
                /\ rpc' = "select"
                /\ result' = NoResult
    /\ UNCHANGED <<seen, store>>

\* get_isos_list_by_countries(arch, version, ip_address), up to get_all_mirrors
CallGetIsosList(m, order) ==
    /\ rpc = "idle"
    /\ call' = [NoCall EXCEPT !.op = "isos", !.match = m, !.empty_for_unknown_ip = TRUE,
                              !.version = "8", !.arch = "x86_64", !.order = order]
    /\ rpc' = "all"
    /\ part' = NoPart
    /\ result' = NoResult
    /\ UNCHANGED <<seen, store>>

LacksRequired(mirrors) ==
    \E i \in DOMAIN mirrors : FirstRequiredUrl(mirrors[i].urls, <<"https", "http">>) = None

\* The query of get_all_mirrors; for the ISO listing also the grouping by
\* country and the links of the grouped mirrors.
ReadAll ==
    /\ rpc = "all"
    /\ seen' = Visible
    /\ LET mirrors_list == GetAllMirrorsList(Rows(Visible))
       IN  IF call.op = "get_all"
           THEN /\ result' = Ok(call, mirrors_list, <<>>, <<>>)
                /\ rpc' = "idle" /\ call' = NoCall /\ part' = NoPart
           ELSE IF LacksRequired(mirrors_list)
           THEN /\ result' = Raised(call, "StopIteration", <<>>)
                /\ rpc' = "idle" /\ call' = NoCall /\ part' = NoPart
           ELSE /\ part' = [part EXCEPT !.groups = GroupByCountry(
                               SetIsosLinks(mirrors_list, call.version, call.arch,
                                            call.order))]
                /\ rpc' = "select"
                /\ UNCHANGED <<call, result>>
    /\ UNCHANGED store

\* What the caller of _get_nearest_mirrors makes of the list it returned.
Finish(nearest) ==
    /\ rpc' = "idle" /\ call' = NoCall /\ part' = NoPart
    /\ result' =
         CASE call.op = "mirrors_list" ->
                IF \E i \in DOMAIN nearest : MirrorUrl(nearest[i]) = None
                THEN Raised(call, "TypeError", nearest)
                ELSE Ok(call, [i \in DOMAIN nearest |->
                                 FullMirrorPath(nearest[i], call.version, call.repo_path)],
                        nearest, <<>>)
           [] call.op = "isos" ->
                IF LacksRequired(nearest)
                THEN Raised(call, "StopIteration", nearest)
                ELSE Ok(call, SetIsosLinks(nearest, call.version, call.arch, call.order),
                        nearest, part.groups)
           [] OTHER -> Ok(call, nearest, nearest, <<>>)

\* match is None: every non-expired mirror, or the empty list
SelectUnknownIp ==
    /\ rpc = "select"
    /\ ~call.match.found
    /\ IF ~call.empty_for_unknown_ip
       THEN /\ seen' = Visible
            /\ Finish(AllMirrorsQuery(Rows(Visible)))
       ELSE /\ UNCHANGED seen
            /\ Finish(<<>>)
    /\ UNCHANGED store

\* mirrors_by_country = mirrors_by_country_query.all()
SelectByCountry ==
    /\ rpc = "select"
    /\ call.match.found
    /\ seen' = Visible
    /\ \E by_country \in MirrorsByCountryQuery(Rows(Visible), call.match) :
          part' = [part EXCEPT !.country = by_country]
    /\ rpc' = "continent"
    /\ UNCHANGED <<call, result, store>>

\* mirrors_by_continent = mirrors_by_continent_query.all()
SelectByContinent ==
    /\ rpc = "continent"
    /\ seen' = Visible
    /\ \E by_continent \in MirrorsByContinentQuery(Rows(Visible), call.match) :
          part' = [part EXCEPT !.continent = by_continent]
    /\ rpc' = "rest"
    /\ UNCHANGED <<call, result, store>>

\* all_rest_mirrors = all_rest_mirrors_query.all(), and the return
SelectAllRest ==
    /\ rpc = "rest"
    /\ seen' = Visible
    /\ \E all_rest \in AllRestMirrorsQuery(Rows(Visible), call.match) :
          Finish(SuitableMirrors(part.country, part.continent, all_rest))
    /\ UNCHANGED store

(***************************************************************************)
(* update_mirrors_handler, one action per statement of its unit of work.    *)
(* session_scope is a transaction of the store: a session's writes stay in  *)
(* its own work until the block ends (commit), an exception inside the      *)
(* block discards them (rollback) and is raised again, and the store lets   *)
(* one session write at a time (its first write takes the write lock, held  *)
(* to the commit or rollback).                                              *)
(***************************************************************************)
\* The session's work: begun from the committed tables at its first write.
Work(w) ==
    IF tx[w].active THEN tx[w]
    ELSE [active |-> TRUE, mirrors |-> db.mirrors, urls |-> db.urls,
          pending |-> tx[w].pending]

CanWrite(w) == lock \in {0, w}

\* What a failed call raises to its caller.
Errors == {"KeyError", "StoreError", "StoreLocked"}

\* session.rollback() and the exception raised to the caller
Rollback(w, error) ==
    /\ tx' = [tx EXCEPT ![w] = NoTx]
    /\ lock' = IF lock = w THEN 0 ELSE lock
    /\ wpc' = [wpc EXCEPT ![w] = "failed"]
    /\ ret' = [ret EXCEPT ![w] = error]
    /\ idx' = [idx EXCEPT ![w] = 0]
    /\ before' = [before EXCEPT ![w] = EmptyTables]

\* get_config, get_mirrors_info, get_verified_mirrors: verified_mirrors = S
UpdateStart(w, S) ==
    /\ wpc[w] = "idle"
    /\ cycles < MaxCycles
    /\ cycles' = cycles + 1
    /\ verified' = [verified EXCEPT ![w] = S]
    /\ wpc' = [wpc EXCEPT ![w] = "delete_mirrors"]
    /\ UNCHANGED <<db, tx, lock, idx, ret, before, current, reader>>

\* The Mirror delete committed on its own, outside the unit of work.
UpdateDeleteMirrors_Autocommit(w) ==
    /\ wpc[w] = "delete_mirrors"
    /\ CanWrite(w)
    /\ before' = [before EXCEPT ![w] = db]
    /\ db' = [db EXCEPT !.mirrors = <<>>]
    /\ wpc' = [wpc EXCEPT ![w] = "delete_urls"]
    /\ UNCHANGED <<tx, lock, verified, idx, ret, cycles, current, reader>>

\* session.query(Mirror).delete(): the first write of the unit of work
UpdateDeleteMirrors(w) ==
    /\ wpc[w] = "delete_mirrors"
    /\ CanWrite(w)
    /\ before' = [before EXCEPT ![w] = db]
    /\ lock' = w
    /\ tx' = [tx EXCEPT ![w] = [Work(w) EXCEPT !.mirrors = <<>>]]
    /\ wpc' = [wpc EXCEPT ![w] = "delete_urls"]
    /\ UNCHANGED <<db, verified, idx, ret, cycles, current, reader>>

\* The first write finds the store locked by another session for too long:
\* the store's error is raised inside the block.
UpdateBusy(w) ==
    /\ wpc[w] = "delete_mirrors"
    /\ ~CanWrite(w)
    /\ Rollback(w, "StoreLocked")
    /\ UNCHANGED <<db, verified, cycles, current, reader>>

\* Both deletes committed before the inserts: the block ends after them and
\* the inserts run in a unit of work of their own.
UpdateDeleteUrls_Autocommit(w) ==
    /\ wpc[w] = "delete_urls"
    /\ CanWrite(w)
    /\ db' = [mirrors |-> Work(w).mirrors, urls |-> <<>>]
    /\ lock' = 0
    /\ tx' = [tx EXCEPT ![w] = NoTx]
    /\ wpc' = [wpc EXCEPT ![w] = "add"]
    /\ idx' = [idx EXCEPT ![w] = 1]
    /\ UNCHANGED <<verified, ret, before, cycles, current, reader>>

\* session.query(Url).delete()
UpdateDeleteUrls(w) ==
    /\ wpc[w] = "delete_urls"
    /\ CanWrite(w)
    /\ lock' = w
    /\ tx' = [tx EXCEPT ![w] = [Work(w) EXCEPT !.urls = <<>>]]
    /\ wpc' = [wpc EXCEPT ![w] = "add"]
    /\ idx' = [idx EXCEPT ![w] = 1]
    /\ UNCHANGED <<db, verified, ret, before, cycles, current, reader>>

\* One pass of the loop: the Urls and the Mirror of a descriptor are built
\* and added to the session.
UpdateAdd(w) ==
    /\ wpc[w] = "add"
    /\ idx[w] <= Len(verified[w])
    /\ WellFormed(verified[w][idx[w]])
    /\ tx' = [tx EXCEPT ![w].pending = Append(@, Pending(verified[w][idx[w]]))]
    /\ idx' = [idx EXCEPT ![w] = @ + 1]
    /\ UNCHANGED <<db, lock, wpc, verified, ret, before, cycles, current, reader>>

\* The exception swallowed inside the block, which then ends normally and
\* commits what the session holds.
UpdateAddRaises_Commit(w) ==
    /\ wpc[w] = "add"
    /\ idx[w] <= Len(verified[w])
    /\ ~WellFormed(verified[w][idx[w]])
    /\ db' = [mirrors |-> Work(w).mirrors, urls |-> Work(w).urls]
    /\ Rollback(w, "KeyError")
    /\ UNCHANGED <<verified, cycles, current, reader>>

\* One pass of the loop on a descriptor a key of which is missing: KeyError
\* inside the block.
UpdateAddRaises(w) ==
    /\ wpc[w] = "add"
    /\ idx[w] <= Len(verified[w])
    /\ ~WellFormed(verified[w][idx[w]])
    /\ Rollback(w, "KeyError")
    /\ UNCHANGED <<db, verified, cycles, current, reader>>

\* session.flush(): the added objects are inserted.
UpdateFlush(w) ==
    /\ wpc[w] = "add"
    /\ idx[w] > Len(verified[w])
    /\ CanWrite(w)
    /\ lock' = w
    /\ LET t == InsertAll([mirrors |-> Work(w).mirrors, urls |-> Work(w).urls],
                          tx[w].pending, 1)
       IN  tx' = [tx EXCEPT ![w] = [active |-> TRUE, mirrors |-> t.mirrors,
                                    urls |-> t.urls, pending |-> <<>>]]
    /\ wpc' = [wpc EXCEPT ![w] = "commit"]
    /\ UNCHANGED <<db, verified, idx, ret, before, cycles, current, reader>>

\* session.flush() fails in the store (an insert is refused, the store is
\* unavailable): the store's error is raised inside the block.
UpdateFlushRaises(w) ==
    /\ wpc[w] = "add"
    /\ idx[w] > Len(verified[w])
    /\ Rollback(w, "StoreError")
    /\ UNCHANGED <<db, verified, cycles, current, reader>>

\* The block ends: session.commit(), then return 'Done'.
UpdateCommit(w) ==
    /\ wpc[w] = "commit"
    /\ db' = [mirrors |-> tx[w].mirrors, urls |-> tx[w].urls]
    /\ tx' = [tx EXCEPT ![w] = NoTx]
    /\ lock' = 0
    /\ current' = verified[w]
    /\ wpc' = [wpc EXCEPT ![w] = "done"]
    /\ ret' = [ret EXCEPT ![w] = "Done"]
    /\ idx' = [idx EXCEPT ![w] = 0]
    /\ before' = [before EXCEPT ![w] = EmptyTables]
    /\ UNCHANGED <<verified, cycles, reader>>

\* The caller has the outcome; the worker is free for another run.
UpdateReturn(w) ==
    /\ wpc[w] \in {"done", "failed"}
    /\ wpc' = [wpc EXCEPT ![w] = "idle"]
    /\ verified' = [verified EXCEPT ![w] = <<>>]
    /\ ret' = [ret EXCEPT ![w] = "none"]
    /\ UNCHANGED <<db, tx, lock, idx, before, cycles, current, reader>>

WriterNext ==
    \E w \in Writers :
        \/ \E S \in CycleDescLists : UpdateStart(w, S)
        \/ UpdateDeleteMirrors(w)
        \/ UpdateBusy(w)
        \/ UpdateDeleteUrls(w)
        \/ UpdateAdd(w)
        \/ UpdateAddRaises(w)
        \/ UpdateFlush(w)
        \/ UpdateFlushRaises(w)
        \/ UpdateCommit(w)
        \/ UpdateReturn(w)

\* The steps of a reading request whose address resolves to one of `geo`.
ReaderNext(geo) ==
    \/ \E m \in geo, e \in BOOLEAN : CallNearest(m, e)
    \/ CallGetAllMirrors
    \/ \E m \in geo, v \in RequestVersions, r \in RequestRepos :
          CallGetMirrorsList(m, v, r)
    \/ \E m \in geo, o \in DictOrders : CallGetIsosList(m, o)
    \/ ReadAll
    \/ SelectUnknownIp
    \/ SelectByCountry
    \/ SelectByContinent
    \/ SelectAllRest

NextSel == ReaderNext(GeoOutcomes)

SpecSel == InitSel /\ [][NextSel]_vars

Next == WriterNext \/ ReaderNext(CycleGeoOutcomes)

Spec == Init /\ [][Next]_vars

(***************************************************************************)
(* Properties.                                                              *)
(***************************************************************************)
Range(s) == {s[i] : i \in DOMAIN s}

Names(s) == [i \in DOMAIN s |-> s[i].name]

\* The call returned the list of _get_nearest_mirrors, called directly.
NearestReturned == result.status = "ok" /\ result.call.op = "nearest"

\* C1: no mirror whose is_expired flag is true is in the output of a read
\* path: the selector's list, the full listing, the per-country groups and
\* the nearest list of the ISO listing.
C1_NoExpiredInAnyOutput ==
    (result.status = "ok" /\ result.call.op \in {"nearest", "get_all", "isos"}) =>
        /\ \A i \in DOMAIN result.value : ~result.value[i].is_expired
        /\ \A c \in DOMAIN result.groups :
              \A i \in DOMAIN result.groups[c] : ~result.groups[c][i].is_expired

\* A step in which the reader runs a query against the registry.
ReadStep ==
    /\ rpc' # rpc
    /\ \/ rpc \in {"all", "continent", "rest"}
       \/ rpc = "select" /\ (call.match.found \/ ~call.empty_for_unknown_ip)

\* C2: every registry read of a reader, each of the three tier reads of one
\* selector call included, is run against the registry of the last completed
\* replacement: the whole old set until the running replacement commits, the
\* whole new set from then on, never a mix and never the emptied tables.
C2_ReadsSeeWholeSnapshots == [][ReadStep => seen' = TablesOf(current')]_vars

\* A selector call between two of its reads has read the non-empty old set
\* while a replacement has deleted it and inserted another, uncommitted.
C2_Witness ==
    \E w \in Writers :
        /\ wpc[w] = "commit"
        /\ rpc \in {"continent", "rest"}
        /\ seen.mirrors # <<>>
        /\ seen = before[w]
        /\ tx[w].mirrors # seen.mirrors

\* C3: when a step of a replacement fails after its delete step has run, the
\* committed Mirror and Url tables after the failed call are those of before
\* the unit of work, nothing of it is left in the session, and the caller
\* gets the error.
C3_FailedReplacementRollsBack ==
    [][\A w \in Writers :
          wpc[w] \in {"delete_urls", "add", "commit"} /\ wpc'[w] = "failed" =>
              /\ db' = before[w]
              /\ ~tx'[w].active
              /\ ret'[w] \in Errors]_vars

\* A replacement of a non-empty registry has failed on a malformed descriptor.
C3_Witness ==
    \E w \in Writers :
        /\ wpc[w] = "failed"
        /\ ret[w] = "KeyError"
        /\ db.mirrors # <<>>
        /\ db = TablesOf(current)

\* The candidates of the three tiers together, before any cap, for a
\* resolved location.
PoolSize(rows, match) ==
    Cardinality(CountryCandidates(rows, match))
        + Cardinality(ContinentCandidates(rows, match))
        + Cardinality(NotExpired(rows))

\* C4 as stated: for every address and both values of the flag the selector
\* returns at most 5 entries, and (the tiers being those of a resolved
\* location) fewer than 5 only if the pool of the three tiers has fewer.
C4_AtMostFiveAlways ==
    NearestReturned =>
        /\ Len(result.value) <= MAX_LENGTH_OF_MIRRORS_LIST
        /\ (result.call.match.found
              /\ Len(result.value) < MAX_LENGTH_OF_MIRRORS_LIST) =>
              PoolSize(Rows(db), result.call.match) < MAX_LENGTH_OF_MIRRORS_LIST

\* C4, amended: the selector returns at most 5 entries when geo resolution
\* succeeds or empty_for_unknown_ip is true, and when resolution succeeds it
\* returns fewer than 5 only if the pool of the three tiers has fewer than 5.
C4_AtMostFiveWhenResolved ==
    NearestReturned =>
        /\ (result.call.match.found \/ result.call.empty_for_unknown_ip) =>
              Len(result.value) <= MAX_LENGTH_OF_MIRRORS_LIST
        /\ (result.call.match.found
              /\ Len(result.value) < MAX_LENGTH_OF_MIRRORS_LIST) =>
              PoolSize(Rows(db), result.call.match) < MAX_LENGTH_OF_MIRRORS_LIST

\* The selector has returned 5 mirrors where the caller's country alone has
\* more than 5 candidates.
C4_Witness ==
    /\ NearestReturned
    /\ result.call.match.found
    /\ Len(result.value) = MAX_LENGTH_OF_MIRRORS_LIST
    /\ Cardinality(CountryCandidates(Rows(db), result.call.match))
          > MAX_LENGTH_OF_MIRRORS_LIST

InTierA(m, match) ==
    ~m.is_expired /\ m.continent = match.continent /\ m.country = match.country

\* Where the mirror named n comes first in the list s.
FirstAt(s, n) ==
    CHOOSE i \in DOMAIN s : s[i].name = n /\ \A j \in DOMAIN s : s[j].name = n => i <= j

\* C5: when geo resolution succeeds, a mirror of the result that is in
\* Tier A (same country) comes in the result before every mirror of the
\* result that is only in Tier B or C, whatever their distances.
C5_TierPriority ==
    NearestReturned /\ result.call.match.found =>
        \A i, j \in DOMAIN result.value :
            InTierA(result.value[i], result.call.match)
              /\ ~InTierA(result.value[j], result.call.match) =>
                FirstAt(result.value, result.value[i].name)
                    < FirstAt(result.value, result.value[j].name)

\* A same-country mirror of the result stands before a mirror of another
\* country that is strictly nearer to the caller.
C5_Witness ==
    /\ NearestReturned
    /\ result.call.match.found
    /\ \E i, j \in DOMAIN result.value :
          /\ i < j
          /\ InTierA(result.value[i], result.call.match)
          /\ ~InTierA(result.value[j], result.call.match)
          /\ ConditionalDistance(result.value[j], result.call.match.longitude,
                                 result.call.match.latitude)
               < ConditionalDistance(result.value[i], result.call.match.longitude,
                                     result.call.match.latitude)

\* C6: with the registry of exactly A (the caller's country), B (same
\* continent) and C (another continent), none expired, and the caller at A,
\* the selector returns exactly [A, B, C].
C6_ScenarioReturnsABC ==
    (/\ NearestReturned
     /\ current = <<Desc(1), Desc(2), Desc(3)>>
     /\ db = TablesOf(current)
     /\ result.call.match = Match("EU", "DE", 1, 0))
        => Names(result.value) = <<1, 2, 3>>

\* Name and attributes of a listed mirror, and those a descriptor gives.
Attributes(m) ==
    [name |-> m.name, continent |-> m.continent, country |-> m.country,
     latitude |-> m.latitude, longitude |-> m.longitude, urls |-> m.urls]

AttributesOfDescriptor(d) ==
    [name |-> d.name, continent |-> d.continent, country |-> d.country,
     latitude |-> d.location.lat, longitude |-> d.location.lon, urls |-> d.address]

\* C7: get_all_mirrors, reading the registry a replacement with the
\* descriptor list S has left, returns exactly the mirrors of the descriptors
\* of S whose status is not "expired".
C7_RoundTrip ==
    result.status = "ok" /\ result.call.op = "get_all" /\ seen = TablesOf(current) =>
        LET live == {i \in DOMAIN current : current[i].status # "expired"}
        IN  /\ Len(result.value) = Cardinality(live)
            /\ {Attributes(m) : m \in Range(result.value)}
                 = {AttributesOfDescriptor(current[i]) : i \in live}

\* C8: when geo resolution fails and empty_for_unknown_ip is false, the
\* selector returns every non-expired mirror of the registry and nothing
\* else, each once, not cut to 5.
C8_UnknownIpReturnsAllLive ==
    NearestReturned /\ ~result.call.match.found /\ ~result.call.empty_for_unknown_ip =>
        LET live == {i \in DOMAIN db.mirrors : ~db.mirrors[i].is_expired}
        IN  /\ Range(result.value) = {ToDict(db, i) : i \in live}
            /\ Len(result.value) = Cardinality(live)

\* The fallback has returned more than 5 mirrors of a registry that also
\* holds an expired one.
C8_Witness ==
    /\ NearestReturned
    /\ ~result.call.match.found
    /\ ~result.call.empty_for_unknown_ip
    /\ Len(result.value) > MAX_LENGTH_OF_MIRRORS_LIST
    /\ \E i \in DOMAIN db.mirrors : db.mirrors[i].is_expired

\* A run between its delete step and the end of its unit of work.
InCycle(w) == wpc[w] \in {"delete_urls", "add", "commit"}

C10_MirrorsListNeverFails ==
    result.call.op = "mirrors_list" /\ result.error # "BadRequestFormatExceptioin" =>
        /\ result.status = "ok"
        /\ Len(result.value) = Len(result.nearest)
        /\ \A i \in DOMAIN result.value :
              LET urls == result.nearest[i].urls
              IN  result.value[i] =
                    [base |-> IF "https" \in DOMAIN urls THEN urls["https"]
                              ELSE urls["http"],
                     rest |-> <<result.call.version, result.call.repo_path>>]

====
